---- MODULE Spec2Model ----
(***************************************************************************)
(* The closure bridge of gi/closure.c: a GClosure subclass (Closure) that  *)
(* wraps a JS callable, and the protocol that keeps its (runtime, context, *)
(* obj) triple consistent across release of the last reference, external   *)
(* g_closure_invalidate, the lazy liveness check and the keep-alive        *)
(* notifier of the context's global object.                                *)
(*                                                                         *)
(* Execution is single-threaded and re-entrant.  The native code runs      *)
(* atomically between two callback points: the invalidate listeners run by *)
(* g_closure_invalidate, and the callable dispatched by gjs_closure_invoke.*)
(* At a callback point a frame stays on `stack`; anything may be called    *)
(* re-entrantly before the frame is resumed.                               *)
(*                                                                         *)
(* GLib's GClosure (g_closure_ref/unref/invalidate) and gi/keep-alive.c    *)
(* are not part of src/; they are modelled from their documented contract. *)
(***************************************************************************)
EXTENDS Integers, Sequences, FiniteSets, TLC

\* ------------------------------------------------------------------ bounds
MaxClosures == 2
NContexts == 2
NCallables == 1
MaxNativeRefs == 2
MaxDepth == 2
MaxLeakedRequests == 1

\* --------------------------------------------------------------- constants
NULL == 0
TheRuntime == 1

Closures == 1..MaxClosures
Contexts == 1..NContexts
Callables == 1..NCallables

VARIABLES
    live,                \* contexts in the runtime's list (JS_ContextIterator)
    keep_alive,          \* per context: pending (watched, data) notifier entries
    request_depth,       \* per context: JS_BeginRequest minus JS_EndRequest
    storage,             \* per closure: "unborn", "live" or "freed"
    runtime,             \* Closure.runtime
    context,             \* Closure.context
    obj,                 \* Closure.obj
    unref_on_global_object_finalized,
    ref_count,           \* GClosure.ref_count
    is_invalid,          \* GClosure.is_invalid
    closure_counter,     \* GJS_INC_COUNTER / GJS_DEC_COUNTER (closure)
    native_refs,         \* references owned by native holders (ghost)
    n_cleared,           \* times the triple was cleared (ghost)
    n_notified,          \* times the invalidate listeners were run (ghost)
    n_selfref,           \* deferred self-references taken (ghost)
    n_selfunref,         \* deferred self-references released (ghost)
    cleared_by,          \* which function cleared the triple (ghost)
    stack,               \* suspended native frames, innermost last
    fault                \* "none" or the memory/contract error that happened

vars == <<live, keep_alive, request_depth, storage, runtime, context, obj,
          unref_on_global_object_finalized, ref_count, is_invalid,
          closure_counter, native_refs, n_cleared, n_notified, n_selfref,
          n_selfunref, cleared_by, stack, fault>>

\* ------------------------------------------------------------- step record
\* What one step of the native code did; kept in the heap the step works on.
NoEvent(op, c) ==
    [op |-> op, c |-> c,
     was_active |-> FALSE,    \* c->obj was non-NULL when the step began
     ctx_was_live |-> FALSE,  \* c->context was in the live set when it began
     entry_pending |-> FALSE, \* c's keep-alive entry was pending when it began
     engine |-> {},           \* engine primitives called
     ctx_used |-> {},         \* contexts handed to the engine or the registry
     obj_used |-> {},         \* callables handed to the engine or the registry
     registry |-> {},         \* keep-alive calls made
     cleared |-> FALSE,       \* the triple was cleared
     lazy_clear |-> FALSE,    \* ... by check_context_valid
     notified |-> FALSE,      \* the invalidate listeners were started
     selfref |-> FALSE,       \* the deferred self-reference was taken
     selfunref |-> FALSE,     \* the deferred self-reference was released
     finalized |-> FALSE,     \* the closure's storage was released
     on_freed |-> FALSE,      \* the step ran on released storage
     logged |-> 0,            \* exceptions reported by gjs_log_exception
     exception_pending |-> FALSE,  \* the pending-exception slot of the context
     retval_set |-> FALSE,    \* *retval was written
     returned |-> "none",     \* what the function returned to its caller
     result |-> "none"]

NoFrame == <<>>

\* The heap the C functions work on, threaded through the operators below.
Heap(op, c) ==
    [keep_alive |-> keep_alive, request_depth |-> request_depth,
     storage |-> storage, runtime |-> runtime, context |-> context, obj |-> obj,
     unref_on_global_object_finalized |-> unref_on_global_object_finalized,
     ref_count |-> ref_count, is_invalid |-> is_invalid,
     closure_counter |-> closure_counter,
     n_cleared |-> n_cleared, n_notified |-> n_notified,
     n_selfref |-> n_selfref, n_selfunref |-> n_selfunref,
     cleared_by |-> cleared_by,
     fault |-> fault,
     suspended |-> NoFrame,
     log |-> NoEvent(op, c)]

EntryPending(c) ==
    \E x \in Contexts : \E e \in keep_alive[x] : e.data = c

HeapAt(op, c) ==
    [Heap(op, c) EXCEPT !.log.was_active = (obj[c] # NULL),
                        !.log.ctx_was_live = (context[c] \in live),
                        !.log.entry_pending = EntryPending(c)]

\* simple: the context argument of the gjs_closure_invoke_simple that made
\* the gjs_closure_invoke of this frame, NULL if there is none.
Frame(kind, c, k, need_unref, cx) ==
    [kind |-> kind, c |-> c, k |-> k, need_unref |-> need_unref, context |-> cx,
     simple |-> NULL]

\* An engine primitive called on context cx (and callable o, or NULL).
Engine(H, prim, cx, o) ==
    [H EXCEPT !.log.engine = @ \cup {prim},
              !.log.ctx_used = @ \cup ({cx} \ {NULL}),
              !.log.obj_used = @ \cup ({o} \ {NULL})]

\* ------------------------------------------------------- engine primitives
JS_BeginRequest(H, cx) ==
    [Engine(H, "JS_BeginRequest", cx, NULL) EXCEPT !.request_depth[cx] = @ + 1]

JS_EndRequest(H, cx) ==
    [Engine(H, "JS_EndRequest", cx, NULL) EXCEPT !.request_depth[cx] = @ - 1]

\* gjs_log_exception(cx): reports and clears the pending exception, if any.
gjs_log_exception(H, cx, pending) ==
    LET H1 == Engine(H, "gjs_log_exception", cx, NULL)
    IN  IF pending
        THEN [H1 EXCEPT !.log.logged = @ + 1,
                        !.log.exception_pending = FALSE]
        ELSE H1

\* ------------------------------------------------ keep-alive (the registry)
gjs_keep_alive_add_global_child(H, cx, watched, c) ==
    LET H1 == [H EXCEPT !.log.registry = @ \cup {"add"},
                        !.log.ctx_used = @ \cup {cx},
                        !.log.obj_used = @ \cup {watched}]
    IN  IF \E e \in H.keep_alive[cx] : e.watched = watched
        THEN [H1 EXCEPT !.fault = "registry_contract"]
        ELSE [H1 EXCEPT !.keep_alive[cx] =
                            @ \cup {[watched |-> watched, data |-> c]}]

gjs_keep_alive_remove_global_child(H, cx, watched, c) ==
    LET H1 == [H EXCEPT !.log.registry = @ \cup {"remove"},
                        !.log.ctx_used = @ \cup ({cx} \ {NULL}),
                        !.log.obj_used = @ \cup ({watched} \ {NULL})]
    IN  IF cx \in Contexts
        THEN [H1 EXCEPT !.keep_alive[cx] =
                            @ \ {[watched |-> watched, data |-> c]}]
        ELSE [H1 EXCEPT !.fault = "registry_contract"]

\* ------------------------------------------------------------ GLib GClosure
\* closure_finalized (the finalize notifier) and the release of the storage.
\* Mutant: a finalize notifier that also removes the keep-alive entry, with
\* whatever the triple holds by then.
closure_finalized_removes_entry(H, c) ==
    gjs_keep_alive_remove_global_child(
        [H EXCEPT !.closure_counter = @ - 1], H.context[c], H.obj[c], c)

\* Mutant: a finalize notifier that leaves the counter alone.
closure_finalized_keeps_counter(H, c) ==
    H
closure_finalized(H, c) ==
    [H EXCEPT !.closure_counter = @ - 1]

g_closure_free(H, c) ==
    [closure_finalized(H, c) EXCEPT !.storage[c] = "freed",
                                    !.log.finalized = TRUE]

\* g_closure_invalidate: once only; takes a temporary reference, sets
\* is_invalid and starts the invalidate listeners.  The frame it leaves is
\* resumed by ListenersReturn, which runs closure_invalidated (registered
\* first, so run last) and drops the temporary reference.
g_closure_invalidate(H, c, k, need_unref) ==
    IF H.is_invalid[c]
    THEN H
    ELSE [H EXCEPT !.ref_count[c] = @ + 1,
                   !.is_invalid[c] = TRUE,
                   !.n_notified[c] = @ + 1,
                   !.log.notified = TRUE,
                   !.suspended = <<Frame("notify", c, k, need_unref, NULL)>>]

g_closure_unref_dec(H, c) ==
    LET H1 == [H EXCEPT !.ref_count[c] = @ - 1]
    IN  IF H1.ref_count[c] = 0 THEN g_closure_free(H1, c) ELSE H1

\* g_closure_unref: the last reference invalidates first.
g_closure_unref(H, c) ==
    LET H1 == IF H.ref_count[c] = 1
              THEN g_closure_invalidate(H, c, "g_closure_unref", FALSE)
              ELSE H
    IN  IF H1.suspended # NoFrame THEN H1 ELSE g_closure_unref_dec(H1, c)

g_closure_ref(H, c) ==
    [H EXCEPT !.ref_count[c] = @ + 1]

\* ------------------------------------------------------------ gi/closure.c
\* Mutant: invalidate_js_pointers that forgets to clear c->context.
invalidate_js_pointers_keeps_context(H, c, k, need_unref) ==
    IF H.obj[c] = NULL
    THEN H
    ELSE g_closure_invalidate(
             [H EXCEPT !.obj[c] = NULL,
                       !.runtime[c] = NULL,
                       !.n_cleared[c] = @ + 1,
                       !.cleared_by[c] = k,
                       !.log.cleared = TRUE],
             c, k, need_unref)

\* Mutant: invalidate_js_pointers that notifies before it clears, so that
\* the listeners run on a populated triple.
invalidate_js_pointers_notify_first(H, c, k, need_unref) ==
    IF H.obj[c] = NULL
    THEN H
    ELSE LET H1 == g_closure_invalidate(H, c, k, need_unref)
         IN  IF H1.suspended # NoFrame
             THEN H1
             ELSE [H1 EXCEPT !.obj[c] = NULL,
                             !.context[c] = NULL,
                             !.runtime[c] = NULL,
                             !.n_cleared[c] = @ + 1,
                             !.cleared_by[c] = k,
                             !.log.cleared = TRUE]

invalidate_js_pointers(H, c, k, need_unref) ==
    IF H.obj[c] = NULL
    THEN H
    ELSE g_closure_invalidate(
             [H EXCEPT !.obj[c] = NULL,
                       !.context[c] = NULL,
                       !.runtime[c] = NULL,
                       !.n_cleared[c] = @ + 1,
                       !.cleared_by[c] = k,
                       !.log.cleared = TRUE],
             c, k, need_unref)

\* Mutant: check_context_valid that is satisfied by any live context.
check_context_valid_any_context(H, c, k) ==
    IF H.runtime[c] = NULL
    THEN H
    ELSE LET H1 == [H EXCEPT !.log.engine = @ \cup {"JS_ContextIterator"}]
         IN  IF \E a_context \in live : a_context # NULL
             THEN H1
             ELSE invalidate_js_pointers(
                      [H1 EXCEPT !.log.lazy_clear = TRUE], c, k, FALSE)

\* Mutant: check_context_valid whose walk over the runtime's contexts
\* misses the first one.
check_context_valid_skips_first(H, c, k) ==
    IF H.runtime[c] = NULL
    THEN H
    ELSE LET H1 == [H EXCEPT !.log.engine = @ \cup {"JS_ContextIterator"}]
         IN  IF \E a_context \in live :
                    /\ a_context = H.context[c]
                    /\ \E b_context \in live : b_context < a_context
             THEN H1
             ELSE invalidate_js_pointers(
                      [H1 EXCEPT !.log.lazy_clear = TRUE], c, k, FALSE)

\* Mutant: check_context_valid with the comparison inverted, which takes any
\* other context of the runtime for the stored one.
check_context_valid_inverted(H, c, k) ==
    IF H.runtime[c] = NULL
    THEN H
    ELSE LET H1 == [H EXCEPT !.log.engine = @ \cup {"JS_ContextIterator"}]
         IN  IF \E a_context \in live : a_context # H.context[c]
             THEN H1
             ELSE invalidate_js_pointers(
                      [H1 EXCEPT !.log.lazy_clear = TRUE], c, k, FALSE)
check_context_valid(H, c, k) ==
    IF H.runtime[c] = NULL
    THEN H
    ELSE LET H1 == [H EXCEPT !.log.engine = @ \cup {"JS_ContextIterator"}]
         IN  IF \E a_context \in live : a_context = H.context[c]
             THEN H1
             ELSE invalidate_js_pointers(
                      [H1 EXCEPT !.log.lazy_clear = TRUE], c, k, FALSE)

\* Mutant: closure_invalidated that removes the keep-alive entry of a live
\* context but leaves the pointers in place.
closure_invalidated_keeps_pointers(H, c) ==
    IF H.obj[c] = NULL
    THEN H
    ELSE LET H1 == check_context_valid(H, c, "closure_invalidated")
         IN  IF H1.obj[c] = NULL
             THEN [g_closure_ref(H1, c) EXCEPT
                      !.unref_on_global_object_finalized[c] = TRUE,
                      !.n_selfref[c] = @ + 1,
                      !.log.selfref = TRUE]
             ELSE gjs_keep_alive_remove_global_child(
                      H1, H1.context[c], H1.obj[c], c)

\* Mutant: closure_invalidated that sets the flag without taking the
\* reference the flag stands for.
closure_invalidated_no_ref(H, c) ==
    IF H.obj[c] = NULL
    THEN H
    ELSE LET H1 == check_context_valid(H, c, "closure_invalidated")
         IN  IF H1.obj[c] = NULL
             THEN [H1 EXCEPT
                      !.unref_on_global_object_finalized[c] = TRUE,
                      !.n_selfref[c] = @ + 1,
                      !.log.selfref = TRUE]
             ELSE [gjs_keep_alive_remove_global_child(
                       H1, H1.context[c], H1.obj[c], c) EXCEPT
                      !.obj[c] = NULL,
                      !.context[c] = NULL,
                      !.runtime[c] = NULL,
                      !.n_cleared[c] = @ + 1,
                      !.cleared_by[c] = "keep_alive_removed",
                      !.log.cleared = TRUE]

\* Mutant: closure_invalidated that clears the pointers of a live context
\* but leaves the keep-alive entry registered.
closure_invalidated_keeps_entry(H, c) ==
    IF H.obj[c] = NULL
    THEN H
    ELSE LET H1 == check_context_valid(H, c, "closure_invalidated")
         IN  IF H1.obj[c] = NULL
             THEN [g_closure_ref(H1, c) EXCEPT
                      !.unref_on_global_object_finalized[c] = TRUE,
                      !.n_selfref[c] = @ + 1,
                      !.log.selfref = TRUE]
             ELSE [H1 EXCEPT
                      !.obj[c] = NULL,
                      !.context[c] = NULL,
                      !.runtime[c] = NULL,
                      !.n_cleared[c] = @ + 1,
                      !.cleared_by[c] = "keep_alive_removed",
                      !.log.cleared = TRUE]

\* Mutant: closure_invalidated that takes a reference on the live-context
\* path as well, where no notifier is left to release it.
closure_invalidated_ref_always(H, c) ==
    IF H.obj[c] = NULL
    THEN H
    ELSE LET H1 == check_context_valid(H, c, "closure_invalidated")
         IN  IF H1.obj[c] = NULL
             THEN [g_closure_ref(H1, c) EXCEPT
                      !.unref_on_global_object_finalized[c] = TRUE,
                      !.n_selfref[c] = @ + 1,
                      !.log.selfref = TRUE]
             ELSE [g_closure_ref(gjs_keep_alive_remove_global_child(
                       H1, H1.context[c], H1.obj[c], c), c) EXCEPT
                      !.obj[c] = NULL,
                      !.context[c] = NULL,
                      !.runtime[c] = NULL,
                      !.n_cleared[c] = @ + 1,
                      !.cleared_by[c] = "keep_alive_removed",
                      !.log.cleared = TRUE]

\* Mutant: closure_invalidated that clears c->obj only on the live-context
\* path.
closure_invalidated_clears_obj_only(H, c) ==
    IF H.obj[c] = NULL
    THEN H
    ELSE LET H1 == check_context_valid(H, c, "closure_invalidated")
         IN  IF H1.obj[c] = NULL
             THEN [g_closure_ref(H1, c) EXCEPT
                      !.unref_on_global_object_finalized[c] = TRUE,
                      !.n_selfref[c] = @ + 1,
                      !.log.selfref = TRUE]
             ELSE [gjs_keep_alive_remove_global_child(
                       H1, H1.context[c], H1.obj[c], c) EXCEPT
                      !.obj[c] = NULL,
                      !.n_cleared[c] = @ + 1,
                      !.cleared_by[c] = "keep_alive_removed",
                      !.log.cleared = TRUE]

\* Mutant: closure_invalidated that removes the keep-alive entry without
\* looking whether the context is still there.
closure_invalidated_removes_unchecked(H, c) ==
    IF H.obj[c] = NULL
    THEN H
    ELSE [gjs_keep_alive_remove_global_child(
              H, H.context[c], H.obj[c], c) EXCEPT
             !.obj[c] = NULL,
             !.context[c] = NULL,
             !.runtime[c] = NULL,
             !.n_cleared[c] = @ + 1,
             !.cleared_by[c] = "keep_alive_removed",
             !.log.cleared = TRUE]
\* Mutant: closure_invalidated that takes the reference on the dead-context
\* path but does not set the flag that would release it.
closure_invalidated_ref_no_flag(H, c) ==
    IF H.obj[c] = NULL
    THEN H
    ELSE LET H1 == check_context_valid(H, c, "closure_invalidated")
         IN  IF H1.obj[c] = NULL
             THEN [g_closure_ref(H1, c) EXCEPT
                      !.n_selfref[c] = @ + 1,
                      !.log.selfref = TRUE]
             ELSE [gjs_keep_alive_remove_global_child(
                       H1, H1.context[c], H1.obj[c], c) EXCEPT
                      !.obj[c] = NULL,
                      !.context[c] = NULL,
                      !.runtime[c] = NULL,
                      !.n_cleared[c] = @ + 1,
                      !.cleared_by[c] = "keep_alive_removed",
                      !.log.cleared = TRUE]
closure_invalidated(H, c) ==
    IF H.obj[c] = NULL
    THEN H
    ELSE LET H1 == check_context_valid(H, c, "closure_invalidated")
         IN  IF H1.obj[c] = NULL
             THEN [g_closure_ref(H1, c) EXCEPT
                      !.unref_on_global_object_finalized[c] = TRUE,
                      !.n_selfref[c] = @ + 1,
                      !.log.selfref = TRUE]
             ELSE [gjs_keep_alive_remove_global_child(
                       H1, H1.context[c], H1.obj[c], c) EXCEPT
                      !.obj[c] = NULL,
                      !.context[c] = NULL,
                      !.runtime[c] = NULL,
                      !.n_cleared[c] = @ + 1,
                      !.cleared_by[c] = "keep_alive_removed",
                      !.log.cleared = TRUE]

\* global_context_finalized, from line 95 on.
global_context_finalized_unref(H, c, need_unref) ==
    IF need_unref
    THEN [g_closure_unref(H, c) EXCEPT !.n_selfunref[c] = @ + 1,
                                       !.log.selfunref = TRUE]
    ELSE H

\* Mutant: global_context_finalized that unroots the watched object it was
\* handed even when the bridge was invalidated before.
global_context_finalized_touches_watched(H, watched, c) ==
    LET need_unref == H.unref_on_global_object_finalized[c]
        H1 == [H EXCEPT !.unref_on_global_object_finalized[c] = FALSE]
        H2 == IF H1.obj[c] # NULL
              THEN IF H1.obj[c] = watched
                   THEN invalidate_js_pointers(
                            H1, c, "global_context_finalized", need_unref)
                   ELSE [H1 EXCEPT !.fault = "abort"]
              ELSE Engine(H1, "JS_RemoveRoot", NULL, watched)
    IN  IF H2.suspended # NoFrame \/ H2.fault = "abort"
        THEN H2
        ELSE global_context_finalized_unref(H2, c, need_unref)

\* Mutant: global_context_finalized that releases a reference whether or
\* not the deferred self-reference was taken.
global_context_finalized_always_unrefs(H, watched, c) ==
    LET H1 == [H EXCEPT !.unref_on_global_object_finalized[c] = FALSE]
        H2 == IF H1.obj[c] # NULL
              THEN IF H1.obj[c] = watched
                   THEN invalidate_js_pointers(
                            H1, c, "global_context_finalized", TRUE)
                   ELSE [H1 EXCEPT !.fault = "abort"]
              ELSE H1
    IN  IF H2.suspended # NoFrame \/ H2.fault = "abort"
        THEN H2
        ELSE global_context_finalized_unref(H2, c, TRUE)

\* Mutant: global_context_finalized that resets the flag but forgets to
\* release the reference it stands for.
global_context_finalized_forgets_unref(H, watched, c) ==
    LET H1 == [H EXCEPT !.unref_on_global_object_finalized[c] = FALSE]
        H2 == IF H1.obj[c] # NULL
              THEN IF H1.obj[c] = watched
                   THEN invalidate_js_pointers(
                            H1, c, "global_context_finalized", FALSE)
                   ELSE [H1 EXCEPT !.fault = "abort"]
              ELSE H1
    IN  H2

\* Mutant: global_context_finalized that removes the keep-alive entry of a
\* populated bridge before it invalidates the pointers.
global_context_finalized_removes_entry(H, watched, c) ==
    LET need_unref == H.unref_on_global_object_finalized[c]
        H1 == [H EXCEPT !.unref_on_global_object_finalized[c] = FALSE]
        H2 == IF H1.obj[c] # NULL
              THEN IF H1.obj[c] = watched
                   THEN invalidate_js_pointers(
                            gjs_keep_alive_remove_global_child(
                                H1, H1.context[c], H1.obj[c], c),
                            c, "global_context_finalized", need_unref)
                   ELSE [H1 EXCEPT !.fault = "abort"]
              ELSE H1
    IN  IF H2.suspended # NoFrame \/ H2.fault = "abort"
        THEN H2
        ELSE global_context_finalized_unref(H2, c, need_unref)
\* Mutant: global_context_finalized that reads the flag but does not reset
\* it.
global_context_finalized_keeps_flag(H, watched, c) ==
    LET need_unref == H.unref_on_global_object_finalized[c]
        H2 == IF H.obj[c] # NULL
              THEN IF H.obj[c] = watched
                   THEN invalidate_js_pointers(
                            H, c, "global_context_finalized", need_unref)
                   ELSE [H EXCEPT !.fault = "abort"]
              ELSE H
    IN  IF H2.suspended # NoFrame \/ H2.fault = "abort"
        THEN H2
        ELSE global_context_finalized_unref(H2, c, need_unref)
global_context_finalized(H, watched, c) ==
    LET need_unref == H.unref_on_global_object_finalized[c]
        H1 == [H EXCEPT !.unref_on_global_object_finalized[c] = FALSE]
        H2 == IF H1.obj[c] # NULL
              THEN IF H1.obj[c] = watched
                   THEN invalidate_js_pointers(
                            H1, c, "global_context_finalized", need_unref)
                   ELSE [H1 EXCEPT !.fault = "abort"]
              ELSE H1
    IN  IF H2.suspended # NoFrame \/ H2.fault = "abort"
        THEN H2
        ELSE global_context_finalized_unref(H2, c, need_unref)

\* gjs_closure_invoke, from line 228 on: the no-op return or the dispatch.
gjs_closure_invoke_checked(H, c) ==
    LET cx == H.context[c]
    IN  IF H.obj[c] = NULL
        THEN [H EXCEPT !.context[c] = NULL, !.log.result = "noop",
                       !.log.returned = "void"]
        ELSE LET H1 == JS_BeginRequest(H, cx)
                 H2 == Engine(H1, "JS_IsExceptionPending", cx, NULL)
                 H2a == IF H2.log.exception_pending
                        THEN gjs_log_exception(H2, H2.context[c], TRUE)
                        ELSE H2
                 H3 == Engine(H2a, "gjs_call_function_value", cx, H.obj[c])
             IN  [H3 EXCEPT !.log.result = "dispatched",
                            !.suspended = <<Frame("call", c, "gjs_closure_invoke",
                                                  FALSE, cx)>>]

\* Mutant: gjs_closure_invoke that trusts c->obj without the liveness check.
gjs_closure_invoke_unchecked(H, c) ==
    gjs_closure_invoke_checked(H, c)

gjs_closure_invoke(H, c) ==
    LET H1 == check_context_valid(H, c, "gjs_closure_invoke")
    IN  IF H1.suspended # NoFrame THEN H1 ELSE gjs_closure_invoke_checked(H1, c)

\* gjs_closure_invoke, after gjs_call_function_value returned call_ok with
\* an exception pending or not.
\* Mutant: the tail of gjs_closure_invoke that drops the exception of a
\* failed call without reporting it.
gjs_closure_invoke_returned_silent(H, c, cx, call_ok, exc) ==
    LET H0 == [H EXCEPT !.log.exception_pending = exc]
        H1 == IF call_ok THEN gjs_log_exception(H0, cx, exc) ELSE H0
        H2 == IF call_ok THEN [H1 EXCEPT !.log.retval_set = TRUE] ELSE H1
    IN  [JS_EndRequest(H2, cx) EXCEPT !.log.result = "returned",
                                      !.log.returned = "void"]

\* Mutant: the tail of gjs_closure_invoke that does not look for an
\* exception left pending by a call that succeeded.
gjs_closure_invoke_returned_ignores_pending(H, c, cx, call_ok, exc) ==
    LET H0 == [H EXCEPT !.log.exception_pending = exc]
        H1 == IF call_ok THEN H0 ELSE gjs_log_exception(H0, cx, exc)
        H2 == IF call_ok THEN [H1 EXCEPT !.log.retval_set = TRUE] ELSE H1
    IN  [JS_EndRequest(H2, cx) EXCEPT !.log.result = "returned",
                                      !.log.returned = "void"]

gjs_closure_invoke_returned(H, c, cx, call_ok, exc) ==
    LET H0 == [H EXCEPT !.log.exception_pending = exc]
        H1 == gjs_log_exception(H0, cx, H0.log.exception_pending)
        H2 == IF call_ok THEN [H1 EXCEPT !.log.retval_set = TRUE] ELSE H1
    IN  [JS_EndRequest(H2, cx) EXCEPT !.log.result = "returned",
                                      !.log.returned = "void"]

\* gjs_closure_invoke_simple, from line 295 on: gjs_closure_invoke returned.
gjs_closure_invoke_simple_returned(H, cx) ==
    LET H1 == Engine(H, "JS_RemoveRoot", cx, NULL)
        H2 == Engine(H1, "JS_PopArguments", cx, NULL)
    IN  [JS_EndRequest(H2, cx) EXCEPT !.log.returned = "TRUE"]

\* The rest of the function that called gjs_closure_invoke: if the invoke
\* is suspended at a callback point its caller waits with it, otherwise a
\* gjs_closure_invoke_simple that made the call finishes.
gjs_closure_invoke_caller(H, simple) ==
    IF simple = NULL
    THEN H
    ELSE IF H.suspended # NoFrame
         THEN [H EXCEPT !.suspended[1].simple = simple]
         ELSE gjs_closure_invoke_simple_returned(H, simple)

\* gjs_closure_invoke_simple(context, closure, retval, format, ...);
\* args_ok: JS_PushArgumentsVA returned the argument vector.
gjs_closure_invoke_simple(H, cx, c, args_ok) ==
    LET H1 == JS_BeginRequest(H, cx)
        H2 == Engine(H1, "JS_PushArgumentsVA", cx, NULL)
    IN  IF ~args_ok
        THEN [H2 EXCEPT !.log.result = "args_failed", !.log.returned = "FALSE"]
        ELSE gjs_closure_invoke_caller(
                 gjs_closure_invoke(Engine(H2, "JS_AddRoot", cx, NULL), c), cx)

\* gjs_closure_get_context, line 315.
gjs_closure_get_context_checked(H, c) ==
    [H EXCEPT !.log.result = IF H.context[c] = NULL THEN "null" ELSE "context"]

\* Mutant: gjs_closure_get_context that returns c->context without the
\* liveness check.
gjs_closure_get_context_unchecked(H, c) ==
    gjs_closure_get_context_checked(H, c)

gjs_closure_get_context(H, c) ==
    LET H1 == check_context_valid(H, c, "gjs_closure_get_context")
    IN  IF H1.suspended # NoFrame THEN H1
        ELSE gjs_closure_get_context_checked(H1, c)

gjs_closure_get_callable(H, c) ==
    [H EXCEPT !.log.result = IF H.obj[c] = NULL THEN "null" ELSE "callable"]

gjs_closure_new(H, c, cx, callable) ==
    LET H1 == [H EXCEPT !.storage[c] = "live",
                        !.ref_count[c] = 1,
                        !.is_invalid[c] = FALSE,
                        !.runtime[c] = TheRuntime,
                        !.context[c] = cx]
        H2 == JS_BeginRequest(H1, cx)
        H3 == [H2 EXCEPT !.obj[c] = callable,
                         !.unref_on_global_object_finalized[c] = FALSE,
                         !.closure_counter = @ + 1]
        H4 == gjs_keep_alive_add_global_child(H3, H3.context[c], H3.obj[c], c)
    IN  [JS_EndRequest(H4, H4.context[c]) EXCEPT !.log.result = "created"]

\* What runs when the invalidate listeners of c have returned: the bridge's
\* own notifier, then the temporary reference of g_closure_invalidate, then
\* the rest of the function that had called g_closure_invalidate.
g_closure_invalidate_resume(H, fr) ==
    LET c == fr.c
        H1 == closure_invalidated(H, c)
        H2 == g_closure_unref(H1, c)
    IN  CASE fr.k = "g_closure_unref" -> g_closure_unref_dec(H2, c)
          [] fr.k = "gjs_closure_invoke" ->
                 gjs_closure_invoke_caller(gjs_closure_invoke_checked(H2, c),
                                           fr.simple)
          [] fr.k = "gjs_closure_get_context" ->
                 gjs_closure_get_context_checked(H2, c)
          [] fr.k = "global_context_finalized" ->
                 global_context_finalized_unref(H2, c, fr.need_unref)
          [] OTHER -> H2

\* --------------------------------------------------------------- the steps
Terminal == {"abort", "registry_contract", "uaf_abort", "uaf_write"}

Running == fault \notin Terminal

Top == stack[Len(stack)]

\* A native caller keeps the reference it calls through until its call
\* returns: the closures some suspended call was entered on.
Pinned(c) ==
    IF \E i \in 1..Len(stack) :
           /\ stack[i].c = c
           /\ stack[i].k \in {"g_closure_invalidate", "gjs_closure_invoke",
                              "gjs_closure_get_context"}
    THEN 1 ELSE 0

Commit(H, base, refs) ==
    /\ Len(base) + Len(H.suspended) <= MaxDepth
    /\ keep_alive' = H.keep_alive
    /\ request_depth' = H.request_depth
    /\ storage' = H.storage
    /\ runtime' = H.runtime
    /\ context' = H.context
    /\ obj' = H.obj
    /\ unref_on_global_object_finalized' = H.unref_on_global_object_finalized
    /\ ref_count' = H.ref_count
    /\ is_invalid' = H.is_invalid
    /\ closure_counter' = H.closure_counter
    /\ n_cleared' = H.n_cleared
    /\ n_notified' = H.n_notified
    /\ n_selfref' = H.n_selfref
    /\ n_selfunref' = H.n_selfunref
    /\ cleared_by' = H.cleared_by
    /\ fault' = H.fault
    /\ stack' = base \o H.suspended
    /\ native_refs' = refs
    /\ UNCHANGED live

Init ==
    /\ live = Contexts
    /\ keep_alive = [x \in Contexts |-> {}]
    /\ request_depth = [x \in Contexts |-> 0]
    /\ storage = [c \in Closures |-> "unborn"]
    /\ runtime = [c \in Closures |-> NULL]
    /\ context = [c \in Closures |-> NULL]
    /\ obj = [c \in Closures |-> NULL]
    /\ unref_on_global_object_finalized = [c \in Closures |-> FALSE]
    /\ ref_count = [c \in Closures |-> 0]
    /\ is_invalid = [c \in Closures |-> FALSE]
    /\ closure_counter = 0
    /\ native_refs = [c \in Closures |-> 0]
    /\ n_cleared = [c \in Closures |-> 0]
    /\ n_notified = [c \in Closures |-> 0]
    /\ n_selfref = [c \in Closures |-> 0]
    /\ n_selfunref = [c \in Closures |-> 0]
    /\ cleared_by = [c \in Closures |-> "none"]
    /\ stack = <<>>
    /\ fault = "none"

\* A native caller holds a reference to a closure whose storage is live.
CanCall(c) ==
    /\ Running
    /\ storage[c] = "live"
    /\ native_refs[c] >= 1

\* gjs_closure_new(context, callable): the context is live, the callable
\* non-NULL; the caller owns the one reference.
NewStep(c, cx, callable) ==
    gjs_closure_new(Heap("gjs_closure_new", c), c, cx, callable)

New(c, cx, callable) ==
    /\ Running
    /\ storage[c] = "unborn"
    /\ \A d \in Closures : d < c => storage[d] # "unborn"
    /\ cx \in live
    /\ Commit(NewStep(c, cx, callable), stack, [native_refs EXCEPT ![c] = 1])

\* A native holder takes another reference.
RefStep(c) ==
    g_closure_ref(HeapAt("g_closure_ref", c), c)

Ref(c) ==
    /\ CanCall(c)
    /\ native_refs[c] < MaxNativeRefs
    /\ Commit(RefStep(c), stack, [native_refs EXCEPT ![c] = @ + 1])

\* A native holder releases a reference it owns.
UnrefStep(c) ==
    g_closure_unref(HeapAt("g_closure_unref", c), c)

CanUnref(c) ==
    /\ CanCall(c)
    /\ native_refs[c] > Pinned(c)

Unref(c) ==
    /\ CanUnref(c)
    /\ Commit(UnrefStep(c), stack, [native_refs EXCEPT ![c] = @ - 1])

\* A native holder calls g_closure_invalidate.
InvalidateStep(c) ==
    g_closure_invalidate(HeapAt("g_closure_invalidate", c), c,
                         "g_closure_invalidate", FALSE)

Invalidate(c) ==
    /\ CanCall(c)
    /\ Commit(InvalidateStep(c), stack, native_refs)

InvokeStep(c) ==
    gjs_closure_invoke(HeapAt("gjs_closure_invoke", c), c)

\* ... called while an exception is (unexpectedly) pending in the context.
InvokePendingStep(c, pending) ==
    gjs_closure_invoke(
        [HeapAt("gjs_closure_invoke", c) EXCEPT
            !.log.exception_pending = pending], c)

Invoke(c) ==
    /\ CanCall(c)
    /\ \E pending \in BOOLEAN :
           Commit(InvokePendingStep(c, pending), stack, native_refs)

GetContextStep(c) ==
    gjs_closure_get_context(HeapAt("gjs_closure_get_context", c), c)

GetContext(c) ==
    /\ CanCall(c)
    /\ Commit(GetContextStep(c), stack, native_refs)

GetCallableStep(c) ==
    gjs_closure_get_callable(HeapAt("gjs_closure_get_callable", c), c)

GetCallable(c) ==
    /\ CanCall(c)
    /\ Commit(GetCallableStep(c), stack, native_refs)

\* The invalidate listeners of the innermost frame have returned.
InListeners ==
    /\ Running
    /\ stack # <<>>
    /\ Top.kind = "notify"

ListenersReturnStep ==
    g_closure_invalidate_resume(HeapAt(Top.k, Top.c), Top)

ListenersReturn ==
    /\ InListeners
    /\ Commit(ListenersReturnStep, SubSeq(stack, 1, Len(stack) - 1),
              native_refs)

\* The callable dispatched by the innermost gjs_closure_invoke has returned.
InCallable ==
    /\ Running
    /\ stack # <<>>
    /\ Top.kind = "call"

CallableReturnsStep(call_ok, exc) ==
    gjs_closure_invoke_caller(
        gjs_closure_invoke_returned(HeapAt("gjs_closure_invoke", Top.c), Top.c,
                                    Top.context, call_ok, exc),
        Top.simple)

CallableReturns(call_ok, exc) ==
    /\ InCallable
    /\ Commit(CallableReturnsStep(call_ok, exc),
              SubSeq(stack, 1, Len(stack) - 1), native_refs)

\* The host destroys a context: it leaves the runtime's list.  The engine is
\* not executing a call in it.
DestroyContext(cx) ==
    /\ Running
    /\ cx \in live
    /\ \A i \in 1..Len(stack) : stack[i].kind = "call" => stack[i].context # cx
    /\ \A i \in 1..Len(stack) : stack[i].simple # cx
    /\ live' = live \ {cx}
    /\ UNCHANGED <<keep_alive, request_depth, storage, runtime, context, obj,
                   unref_on_global_object_finalized, ref_count, is_invalid,
                   closure_counter, native_refs, n_cleared, n_notified,
                   n_selfref, n_selfunref, cleared_by, stack, fault>>

\* The global object of a destroyed context is finalized: the keep-alive
\* runs one pending entry's notifier, once.
CanFire(cx, e) ==
    /\ Running
    /\ cx \notin live
    /\ e \in keep_alive[cx]

GlobalObjectFinalizedStep(cx, e) ==
    global_context_finalized(
        [HeapAt("global_context_finalized", e.data) EXCEPT
            !.keep_alive[cx] = @ \ {e}],
        e.watched, e.data)

GlobalObjectFinalized(cx, e) ==
    /\ CanFire(cx, e)
    /\ storage[e.data] = "live"
    /\ Commit(GlobalObjectFinalizedStep(cx, e), stack, native_refs)

\* ... or runs it on storage that was already released: a use after free,
\* whose outcome is whatever the stale flag and pointer happen to hold
\* (nothing visible, the assertion failing, or a write to released memory).
UseAfterFree == {"uaf_read", "uaf_abort", "uaf_write"}

GlobalObjectFinalizedOnFreed(cx, e, outcome) ==
    /\ CanFire(cx, e)
    /\ storage[e.data] = "freed"
    /\ Commit([HeapAt("global_context_finalized", e.data) EXCEPT
                  !.keep_alive[cx] = @ \ {e},
                  !.fault = outcome,
                  !.log.on_freed = TRUE],
              stack, native_refs)

Next ==
    \/ \E c \in Closures, cx \in Contexts, f \in Callables : New(c, cx, f)
    \/ \E c \in Closures : Ref(c)
    \/ \E c \in Closures : Unref(c)
    \/ \E c \in Closures : Invalidate(c)
    \/ \E c \in Closures : Invoke(c)
    \/ \E c \in Closures : GetContext(c)
    \/ \E c \in Closures : GetCallable(c)
    \/ ListenersReturn
    \/ \E call_ok \in BOOLEAN, exc \in BOOLEAN : CallableReturns(call_ok, exc)
    \/ \E cx \in Contexts : DestroyContext(cx)
    \/ \E cx \in Contexts : \E e \in keep_alive[cx] : GlobalObjectFinalized(cx, e)
    \/ \E cx \in Contexts : \E e \in keep_alive[cx] :
           \E outcome \in UseAfterFree :
               GlobalObjectFinalizedOnFreed(cx, e, outcome)

Spec == Init /\ [][Next]_vars

\* gjs_closure_invoke_simple called by native code that is in context cx.
\* A failed JS_PushArgumentsVA leaves a request open; the model follows at
\* most MaxLeakedRequests of them per context.
InvokeSimpleStep(cx, c, args_ok) ==
    gjs_closure_invoke_simple(HeapAt("gjs_closure_invoke_simple", c), cx, c,
                              args_ok)

InvokeSimple(cx, c, args_ok) ==
    /\ CanCall(c)
    /\ cx \in live
    /\ ~args_ok => request_depth[cx] < MaxLeakedRequests
    /\ Commit(InvokeSimpleStep(cx, c, args_ok), stack, native_refs)

\* The bridge with both of its invoke entry points.
NextSimple ==
    \/ Next
    \/ \E cx \in Contexts, c \in Closures, args_ok \in BOOLEAN :
           InvokeSimple(cx, c, args_ok)

SpecSimple == Init /\ [][NextSimple]_vars

\* ------------------------------------------------------------------ claims
Cleared(c) == obj[c] = NULL /\ context[c] = NULL /\ runtime[c] = NULL

Populated(c) == obj[c] # NULL /\ context[c] # NULL /\ runtime[c] # NULL

FramesOf(c) == {i \in 1..Len(stack) : stack[i].c = c}

NotifyFramesOf(c) == {i \in FramesOf(c) : stack[i].kind = "notify"}

\* The heaps left by every step that can begin on closure c in this state.
StepsOn(c) ==
    (IF CanCall(c)
     THEN {RefStep(c), InvalidateStep(c), InvokeStep(c), GetContextStep(c),
           GetCallableStep(c)}
     ELSE {})
    \cup (IF CanUnref(c) THEN {UnrefStep(c)} ELSE {})
    \cup (IF InListeners /\ Top.c = c THEN {ListenersReturnStep} ELSE {})
    \cup (IF InCallable /\ Top.c = c
          THEN {CallableReturnsStep(call_ok, exc) :
                    call_ok \in BOOLEAN, exc \in BOOLEAN}
          ELSE {})
    \cup (IF Running /\ storage[c] = "live"
          THEN UNION {{GlobalObjectFinalizedStep(cx, e) :
                           e \in {x \in keep_alive[cx] : x.data = c}} :
                      cx \in Contexts \ live}
          ELSE {})

\* C1: over every interleaving of the invalidation triggers the triple of a
\* bridge is cleared at most once and its invalidate listeners are run at
\* most once; the two have both happened once no notification is in
\* progress; and every step that begins on a bridge whose triple is already
\* null clears nothing and notifies nobody.
C1_InvalidatedExactlyOnce ==
    \A c \in Closures :
        /\ n_cleared[c] <= 1
        /\ n_notified[c] <= 1
        /\ storage[c] = "live" => ((obj[c] = NULL) <=> (n_cleared[c] = 1))
        /\ storage[c] = "live" => (is_invalid[c] <=> (n_notified[c] = 1))
        /\ NotifyFramesOf(c) = {} => n_cleared[c] = n_notified[c]
        /\ storage[c] = "freed" => n_cleared[c] = 1 /\ n_notified[c] = 1
        /\ storage[c] = "live" /\ obj[c] = NULL =>
               \A H \in StepsOn(c) : ~H.log.cleared /\ ~H.log.notified

\* A bridge invalidated by the lazy check of gjs_closure_invoke, on which the
\* last unref then acted as a second trigger.
C1_Witness ==
    \E c \in Closures :
        /\ storage[c] = "freed"
        /\ cleared_by[c] = "gjs_closure_invoke"
        /\ n_cleared[c] = 1
        /\ n_notified[c] = 1

\* C2: the keep-alive notifier global_context_finalized is never run on a
\* bridge whose storage was released.
C2_NotifierNeverOnFreed ==
    fault \notin UseAfterFree

\* C3: whenever check_context_valid cleared the triple while the bridge's
\* keep-alive entry had not fired, the bridge holds the deferred
\* self-reference and unref_on_global_object_finalized is set (once the
\* function that ran the check has returned).
C3_EarlyClearTakesSelfRef ==
    \A c \in Closures :
        (/\ storage[c] = "live"
         /\ cleared_by[c] \in {"gjs_closure_invoke", "gjs_closure_get_context",
                               "closure_invalidated"}
         /\ EntryPending(c)
         /\ NotifyFramesOf(c) = {})
        => (unref_on_global_object_finalized[c] /\ n_selfref[c] = 1)

\* References of c held by suspended native frames: the temporary reference
\* of each running g_closure_invalidate, the reference each suspended
\* g_closure_unref is about to drop, and a deferred self-reference that a
\* suspended global_context_finalized is about to drop.
FrameRefs(c) ==
    Cardinality(NotifyFramesOf(c))
    + Cardinality({i \in FramesOf(c) : stack[i].k = "g_closure_unref"})
    + Cardinality({i \in FramesOf(c) : stack[i].need_unref})

\* The references held by native code: by the holders and by the native
\* frames in progress.
NativeRefs(c) == native_refs[c] + FrameRefs(c)

\* C4: the deferred self-reference is taken at most once, released only
\* after it was taken, the flag is set exactly while it is outstanding, and
\* ref_count is the number of native references plus one if the flag is set.
C4_SelfRefAccounting ==
    \A c \in Closures :
        /\ n_selfref[c] <= 1
        /\ n_selfunref[c] <= n_selfref[c]
        /\ storage[c] = "live" =>
               /\ unref_on_global_object_finalized[c]
                      <=> (n_selfref[c] - n_selfunref[c] = 1)
               /\ ref_count[c] = NativeRefs(c)
                      + (IF unref_on_global_object_finalized[c] THEN 1 ELSE 0)
        /\ storage[c] = "freed" => n_selfunref[c] = n_selfref[c]

\* The self-reference was taken, kept the bridge alive with no native
\* reference left, and was released by the notifier, which finalized it.
C4_Witness ==
    \E c \in Closures :
        /\ n_selfref[c] = 1
        /\ n_selfunref[c] = 1
        /\ storage[c] = "freed"

\* C5: in every state a caller or a re-entrant callback can observe, the
\* fields (obj, context, runtime) of a bridge are all non-null or all null.
C5_TripleAllOrNothing ==
    \A c \in Closures :
        storage[c] = "live" => (Cleared(c) \/ Populated(c))

\* The invalidate listeners run by the keep-alive notifier observe the bridge.
C5_Witness ==
    /\ InListeners
    /\ Top.k = "global_context_finalized"
    /\ Cleared(Top.c)

\* C6: the state of a bridge only moves forward: a cleared field stays
\* cleared, released storage stays released, and no step runs a function of
\* the bridge on released storage.
C6_ForwardOnly ==
    [][/\ \A c \in Closures :
              /\ storage[c] = "live" /\ obj[c] = NULL => obj'[c] = NULL
              /\ storage[c] = "live" /\ context[c] = NULL => context'[c] = NULL
              /\ storage[c] = "live" /\ runtime[c] = NULL => runtime'[c] = NULL
              /\ storage[c] = "freed" => storage'[c] = "freed"
       /\ fault' \in UseAfterFree => fault \in UseAfterFree]_vars

InvokeEngine ==
    {"JS_BeginRequest", "JS_IsExceptionPending", "gjs_call_function_value",
     "gjs_log_exception", "JS_EndRequest"}

\* What C7 asks of a heap left by (a part of) gjs_closure_invoke on c.
InvokeWasNoOp(H, c) ==
    /\ H.log.engine \cap InvokeEngine = {}
    /\ H.log.obj_used = {}
    /\ H.log.ctx_used = {}
    /\ ~H.log.retval_set
    /\ H.log.logged = 0
    /\ H.request_depth = request_depth
    /\ H.obj[c] = NULL /\ H.context[c] = NULL /\ H.runtime[c] = NULL
    /\ H.fault = fault

\* C7: gjs_closure_invoke on a populated bridge whose context left the live
\* set calls no engine primitive, does not call the callable, leaves retval
\* alone, reports no exception and leaves the bridge cleared: it starts the
\* invalidate listeners and, when they have returned, returns as a no-op.
C7_InvokeAfterDeathIsNoOp ==
    /\ \A c \in Closures :
           CanCall(c) /\ obj[c] # NULL /\ context[c] \notin live =>
               /\ InvokeWasNoOp(InvokeStep(c), c)
               /\ InvokeStep(c).log.cleared
               /\ \/ InvokeStep(c).log.result = "noop"
                  \/ /\ InvokeStep(c).suspended # NoFrame
                     /\ InvokeStep(c).suspended[1].kind = "notify"
    /\ InListeners /\ Top.k = "gjs_closure_invoke" =>
           /\ InvokeWasNoOp(ListenersReturnStep, Top.c)
           /\ ListenersReturnStep.log.result = "noop"
           /\ ListenersReturnStep.suspended = NoFrame

\* gjs_closure_invoke found the context dead and is running the listeners.
C7_Witness ==
    \E i \in 1..Len(stack) :
        /\ stack[i].kind = "notify"
        /\ stack[i].k = "gjs_closure_invoke"
        /\ cleared_by[stack[i].c] = "gjs_closure_invoke"
        /\ Cleared(stack[i].c)

\* C8: every gjs_closure_invoke enters the engine (JS_BeginRequest,
\* gjs_call_function_value) only with the bridge's context, and only if that
\* context is in the live set when this call begins; with the context gone
\* the call dispatches nothing.
C8_InvokeRechecksLiveness ==
    \A c \in Closures :
        CanCall(c) =>
            /\ InvokeStep(c).log.engine \cap InvokeEngine # {} =>
                   /\ context[c] \in live
                   /\ InvokeStep(c).log.ctx_used = {context[c]}
                   /\ InvokeStep(c).log.obj_used = {obj[c]}
            /\ context[c] \notin live =>
                   InvokeStep(c).log.result # "dispatched"
            /\ Populated(c) /\ context[c] \in live =>
                   InvokeStep(c).log.result = "dispatched"

\* A call is dispatched in a live context while another invoke, after the
\* teardown of its context, was a no-op.
C8_Witness ==
    /\ InCallable
    /\ Top.context \in live
    /\ \E d \in Closures : cleared_by[d] = "gjs_closure_invoke"

ListenersSeeCleared(i) ==
    stack[i].kind = "notify" => Cleared(stack[i].c)

\* C9 as claimed: whenever invalidate listeners run, on every invalidation
\* path, the triple of the bridge is already cleared.
C9_ClearThenNotifyEverywhere ==
    \A i \in 1..Len(stack) : ListenersSeeCleared(i)

\* C9 as amended: the listeners started by invalidate_js_pointers (lazy check
\* or keep-alive notifier) see the triple cleared; those started by
\* g_closure_invalidate or the last g_closure_unref run before
\* closure_invalidated, which leaves the triple cleared when they return.
C9_ClearThenNotifyOnPointerPaths ==
    /\ \A i \in 1..Len(stack) :
           stack[i].k \notin {"g_closure_invalidate", "g_closure_unref"} =>
               ListenersSeeCleared(i)
    /\ InListeners =>
           /\ ListenersReturnStep.obj[Top.c] = NULL
           /\ ListenersReturnStep.context[Top.c] = NULL
           /\ ListenersReturnStep.runtime[Top.c] = NULL
    /\ \A c \in Closures :
           CanCall(c) =>
               \A H \in {InvokeStep(c), GetContextStep(c)} :
                   H.log.notified => H.log.cleared /\ H.obj[c] = NULL

\* The listeners started by the last g_closure_unref run on a bridge whose
\* triple is still populated.
C9_Witness ==
    /\ InListeners
    /\ Top.k = "g_closure_unref"
    /\ Populated(Top.c)

\* C10 as claimed: no step that begins on an invalidated bridge hands a
\* context or a callable to the engine or to the keep-alive.
C10_NoUseAfterInvalidated ==
    \A c \in Closures :
        storage[c] = "live" /\ obj[c] = NULL =>
            \A H \in StepsOn(c) :
                H.log.ctx_used = {} /\ H.log.obj_used = {}

\* C10 as amended: a step that begins on an invalidated bridge never uses a
\* callable and makes no keep-alive call; the only context it uses is the
\* one gjs_closure_invoke saved at entry, handed to gjs_log_exception and
\* JS_EndRequest when the dispatched call returns.
C10_OnlySavedContextAfterInvalidated ==
    \A c \in Closures :
        storage[c] = "live" /\ obj[c] = NULL =>
            \A H \in StepsOn(c) :
                /\ H.log.obj_used = {}
                /\ H.log.registry = {}
                /\ H.log.ctx_used # {} =>
                       /\ InCallable /\ Top.c = c
                       /\ H.log.result = "returned"
                       /\ H.log.ctx_used = {Top.context}
                       /\ H.log.engine = {"gjs_log_exception", "JS_EndRequest"}

\* The bridge was invalidated while its callable was being dispatched.
C10_Witness ==
    /\ InCallable
    /\ storage[Top.c] = "live"
    /\ Cleared(Top.c)

\* C11: gjs_keep_alive_add_global_child is never called with a (notifier,
\* watched) pair that is already pending in the keep-alive of that context.
C11_NoDoubleRegistration ==
    fault # "registry_contract"

\* C12: when closure_invalidated runs for a populated bridge (after the
\* listeners started by g_closure_invalidate or by the last g_closure_unref)
\* and the context is in the live set, it removes the bridge's keep-alive
\* entry and clears the triple; a bridge cleared this way has no pending
\* entry, so global_context_finalized is never delivered for it.
C12_LiveInvalidationRemovesEntry ==
    /\ InListeners /\ obj[Top.c] # NULL /\ context[Top.c] \in live =>
           /\ Top.k \in {"g_closure_invalidate", "g_closure_unref"}
           /\ ListenersReturnStep.log.registry = {"remove"}
           /\ ListenersReturnStep.log.ctx_used = {context[Top.c]}
           /\ ListenersReturnStep.log.obj_used = {obj[Top.c]}
           /\ \A x \in Contexts : \A e \in ListenersReturnStep.keep_alive[x] :
                  e.data # Top.c
           /\ ListenersReturnStep.obj[Top.c] = NULL
           /\ ~ListenersReturnStep.log.selfref
    /\ \A c \in Closures :
           cleared_by[c] = "keep_alive_removed" =>
               /\ ~EntryPending(c)
               /\ ~unref_on_global_object_finalized[c]
               /\ n_selfref[c] = 0

\* A bridge whose entry was removed on invalidation in a live context; every
\* context has since been torn down and every entry left has fired.
C12_Witness ==
    /\ \E c \in Closures : cleared_by[c] = "keep_alive_removed"
    /\ live = {}
    /\ \A x \in Contexts : keep_alive[x] = {}

\* The last reference of a native holder is about to be released.
LastNativeUnref(c) ==
    CanUnref(c) /\ native_refs[c] = 1

\* C13 as claimed: the release of the last native reference of a bridge that
\* was not invalidated runs the invalidate protocol and then releases the
\* storage within that unref; on an invalidated bridge it releases the
\* storage at once.
C13_LastUnrefFinalizes ==
    /\ \A c \in Closures :
           LastNativeUnref(c) =>
               IF is_invalid[c]
               THEN /\ ~UnrefStep(c).log.notified
                    /\ UnrefStep(c).log.finalized
               ELSE /\ UnrefStep(c).log.notified
                    /\ UnrefStep(c).n_notified[c] = 1
    /\ InListeners /\ Top.k = "g_closure_unref" =>
           ListenersReturnStep.log.finalized

\* C13 as amended: the release of the last native reference of a bridge that
\* was not invalidated runs the invalidate protocol once, and that unref
\* releases the storage unless closure_invalidated found the context dead
\* and took the deferred self-reference; on an invalidated bridge the unref
\* notifies and clears nothing, and releases the storage exactly if neither
\* the deferred self-reference nor the temporary reference of a
\* g_closure_invalidate in progress is outstanding.
C13_LastUnrefFinalizesUnlessDeferred ==
    /\ \A c \in Closures :
           LastNativeUnref(c) =>
               IF is_invalid[c]
               THEN /\ ~UnrefStep(c).log.notified
                    /\ ~UnrefStep(c).log.cleared
                    /\ UnrefStep(c).suspended = NoFrame
                    /\ UnrefStep(c).log.finalized
                           <=> (/\ ~unref_on_global_object_finalized[c]
                                /\ NotifyFramesOf(c) = {})
               ELSE /\ UnrefStep(c).log.notified
                    /\ UnrefStep(c).n_notified[c] = 1
                    /\ ~UnrefStep(c).log.finalized
                    /\ UnrefStep(c).suspended # NoFrame
                    /\ UnrefStep(c).suspended[1].k = "g_closure_unref"
    /\ InListeners /\ Top.k = "g_closure_unref" =>
           /\ ListenersReturnStep.log.finalized
                  <=> ~ListenersReturnStep.log.selfref
           /\ ListenersReturnStep.log.selfref
                  <=> (obj[Top.c] # NULL /\ context[Top.c] \notin live)
           /\ ~ListenersReturnStep.log.notified
           /\ ListenersReturnStep.obj[Top.c] = NULL
           /\ ListenersReturnStep.suspended = NoFrame

\* The last native reference was released with the context dead: the bridge
\* is invalidated and kept by the deferred self-reference alone.
C13_Witness ==
    \E c \in Closures :
        /\ storage[c] = "live"
        /\ native_refs[c] = 0
        /\ FramesOf(c) = {}
        /\ ref_count[c] = 1
        /\ unref_on_global_object_finalized[c]
        /\ cleared_by[c] = "closure_invalidated"

\* C14: global_context_finalized delivered to a bridge whose triple is
\* already cleared notifies nobody, clears nothing, calls neither the
\* keep-alive nor the engine and leaves the triple null; it clears
\* unref_on_global_object_finalized and releases one reference exactly if the
\* flag was set (which frees the bridge if that reference was the last).
C14_NotifierOnClearedOnlyDropsSelfRef ==
    \A cx \in Contexts : \A e \in keep_alive[cx] :
        CanFire(cx, e) /\ storage[e.data] = "live" /\ obj[e.data] = NULL =>
            LET c == e.data
                H == GlobalObjectFinalizedStep(cx, e)
                flag == unref_on_global_object_finalized[c]
                dropped == IF flag THEN 1 ELSE 0
            IN  /\ ~H.log.notified
                /\ ~H.log.cleared
                /\ H.suspended = NoFrame
                /\ H.log.registry = {}
                /\ H.log.engine = {}
                /\ H.log.ctx_used = {}
                /\ H.log.obj_used = {}
                /\ H.obj[c] = NULL /\ H.context[c] = NULL /\ H.runtime[c] = NULL
                /\ ~H.unref_on_global_object_finalized[c]
                /\ H.log.selfunref <=> flag
                /\ H.ref_count[c] = ref_count[c] - dropped
                /\ H.log.finalized <=> (flag /\ ref_count[c] = 1)
                /\ H.n_notified = n_notified
                /\ H.n_cleared = n_cleared
                /\ H.fault = fault
                /\ \A d \in Closures \ {c} :
                       /\ H.ref_count[d] = ref_count[d]
                       /\ H.obj[d] = obj[d]
                       /\ H.storage[d] = storage[d]

\* The notifier found the bridge cleared and released the deferred
\* self-reference; a native holder still keeps the bridge.
C14_Witness ==
    \E c \in Closures :
        /\ storage[c] = "live"
        /\ Cleared(c)
        /\ n_selfref[c] = 1
        /\ n_selfunref[c] = 1
        /\ ~unref_on_global_object_finalized[c]
        /\ ~EntryPending(c)

\* What the native caller gets back from the invoke entry point it called:
\* the C return value.  (*retval is written only by a call that succeeded;
\* after a failed call it holds what the caller had put there, which a
\* completed call can produce as well.)
Outcome(H) == H.log.returned

\* C15 as claimed: the outcome returned to the native caller when the
\* callable raised differs from the outcome of a call that completed without
\* an exception.
C15_ExceptionReturnedAsError ==
    InCallable =>
        Outcome(CallableReturnsStep(FALSE, TRUE))
            # Outcome(CallableReturnsStep(TRUE, FALSE))

\* C15 as amended: an exception raised by the callable is reported by
\* gjs_log_exception and not returned.  gjs_closure_invoke returns nothing
\* and leaves *retval unwritten; gjs_closure_invoke_simple returns TRUE, as
\* for a call that completed, and FALSE only when JS_PushArgumentsVA failed,
\* before anything was dispatched.
C15_ExceptionLoggedNotReturned ==
    /\ InCallable =>
           LET raised == CallableReturnsStep(FALSE, TRUE)
               completed == CallableReturnsStep(TRUE, FALSE)
               expected == IF Top.simple = NULL THEN "void" ELSE "TRUE"
           IN  /\ raised.log.logged = 1
               /\ ~raised.log.retval_set
               /\ Outcome(raised) = expected
               /\ completed.log.logged = 0
               /\ completed.log.retval_set
               /\ Outcome(completed) = expected
    /\ \A cx \in live : \A c \in Closures :
           CanCall(c) =>
               /\ Outcome(InvokeSimpleStep(cx, c, FALSE)) = "FALSE"
               /\ "gjs_call_function_value"
                      \notin InvokeSimpleStep(cx, c, FALSE).log.engine
               /\ Outcome(InvokeSimpleStep(cx, c, TRUE)) \in {"TRUE", "none"}
               /\ Outcome(InvokeSimpleStep(cx, c, TRUE)) = "none"
                      <=> InvokeSimpleStep(cx, c, TRUE).suspended # NoFrame

\* gjs_closure_invoke_simple found the bridge valid and dispatched the
\* callable, which may now raise.
C15_Witness ==
    /\ InCallable
    /\ Top.simple # NULL
    /\ Populated(Top.c)
    /\ Top.context \in live

\* C16: when the callable dispatched by a valid gjs_closure_invoke returns,
\* the invoke reports an exception exactly once if one is pending (the call
\* failed, or succeeded and left one) and never otherwise, and the
\* pending-exception slot of the context is clear when it returns; an
\* exception found pending at entry is reported once before the dispatch.
C16_ExceptionReportedOnceAndCleared ==
    /\ InCallable =>
           \A call_ok \in BOOLEAN, exc \in BOOLEAN :
               LET H == CallableReturnsStep(call_ok, exc)
               IN  /\ H.log.logged = (IF exc THEN 1 ELSE 0)
                   /\ ~H.log.exception_pending
                   /\ "gjs_log_exception" \in H.log.engine
                   /\ H.log.result = "returned"
    /\ \A c \in Closures : \A pending \in BOOLEAN :
           CanCall(c) /\ InvokePendingStep(c, pending).log.result = "dispatched"
               => /\ InvokePendingStep(c, pending).log.logged
                         = (IF pending THEN 1 ELSE 0)
                  /\ ~InvokePendingStep(c, pending).log.exception_pending

\* The callable of a valid gjs_closure_invoke is running and may raise, or
\* succeed and leave an exception pending.
C16_Witness ==
    /\ InCallable
    /\ Top.simple = NULL
    /\ Top.context \in live
    /\ request_depth[Top.context] >= 1

\* C17: on a bridge that was invalidated (c->obj is NULL), by whichever
\* trigger, gjs_closure_get_context and gjs_closure_get_callable return NULL;
\* and no step on the bridge sets c->obj or c->context again, so that this
\* holds for every later call.
C17_QueriesReturnNullOnceInvalidated ==
    \A c \in Closures :
        storage[c] = "live" /\ obj[c] = NULL =>
            /\ CanCall(c) =>
                   /\ GetContextStep(c).log.result = "null"
                   /\ GetContextStep(c).suspended = NoFrame
                   /\ GetCallableStep(c).log.result = "null"
            /\ \A H \in StepsOn(c) :
                   H.obj[c] = NULL /\ H.context[c] = NULL

\* A native holder can query a bridge that the keep-alive notifier
\* invalidated, and another that was invalidated through
\* g_closure_invalidate in a live context.
C17_Witness ==
    /\ \E c \in Closures :
           CanCall(c) /\ cleared_by[c] = "global_context_finalized"
    /\ \E c \in Closures :
           CanCall(c) /\ cleared_by[c] = "keep_alive_removed"

\* Nothing is left to happen to bridge c: the native holders released all
\* their references, no native frame works on it and the keep-alive has no
\* entry of it left to fire.
Settled(c) ==
    /\ storage[c] # "unborn"
    /\ native_refs[c] = 0
    /\ FramesOf(c) = {}
    /\ ~EntryPending(c)

\* C18: a bridge whose native references were all released and whose
\* keep-alive entry has fired or was removed is finalized; and once every
\* context is destroyed, every entry has fired and every native reference
\* is released, the counter of live closures is back to zero.
C18_NoLeak ==
    /\ \A c \in Closures : Settled(c) => storage[c] = "freed"
    /\ (/\ live = {}
        /\ stack = <<>>
        /\ \A x \in Contexts : keep_alive[x] = {}
        /\ \A c \in Closures : native_refs[c] = 0)
       => closure_counter = 0

\* Every context is destroyed and every entry fired; the bridges, one of
\* them kept until then by the deferred self-reference alone, are all
\* finalized.
C18_Witness ==
    /\ live = {}
    /\ stack = <<>>
    /\ \A x \in Contexts : keep_alive[x] = {}
    /\ \A c \in Closures : storage[c] = "freed"
    /\ \E c \in Closures : n_selfunref[c] = 1
    /\ closure_counter = 0

\* The callable of bridge c is being dispatched by some gjs_closure_invoke.
Dispatching(c) ==
    \E i \in FramesOf(c) : stack[i].kind = "call"

\* C19: while the callable of a bridge is being dispatched and nothing else
\* invalidated the bridge, its triple is fully set with the context in the
\* live set, and a re-entrant gjs_closure_get_context returns that context
\* and changes nothing; when the callable returns, gjs_closure_invoke does
\* not check the context again.
C19_ReentrantQuerySeesActive ==
    /\ \A c \in Closures :
           Dispatching(c) /\ obj[c] # NULL =>
               /\ Populated(c)
               /\ context[c] \in live
               /\ \A i \in FramesOf(c) :
                      stack[i].kind = "call" => stack[i].context = context[c]
               /\ CanCall(c) =>
                      LET H == GetContextStep(c)
                      IN  /\ H.log.result = "context"
                          /\ ~H.log.cleared /\ ~H.log.notified
                          /\ H.suspended = NoFrame
                          /\ H.obj = obj /\ H.context = context
                          /\ H.runtime = runtime
                          /\ H.ref_count = ref_count
                          /\ H.is_invalid = is_invalid
                          /\ H.keep_alive = keep_alive
                          /\ H.unref_on_global_object_finalized
                                 = unref_on_global_object_finalized
    /\ InCallable =>
           \A call_ok \in BOOLEAN, exc \in BOOLEAN :
               /\ "JS_ContextIterator"
                      \notin CallableReturnsStep(call_ok, exc).log.engine
               /\ ~CallableReturnsStep(call_ok, exc).log.cleared
               /\ ~CallableReturnsStep(call_ok, exc).log.notified

\* The callable of a bridge invoked this same bridge again: both calls are
\* in progress and the bridge is still populated.
C19_Witness ==
    /\ Len(stack) = 2
    /\ stack[1].kind = "call"
    /\ stack[2].kind = "call"
    /\ stack[1].c = stack[2].c
    /\ Populated(stack[1].c)
    /\ CanCall(stack[1].c)

\* gjs_closure_get_context is about to find the context of a populated
\* bridge missing from the live set.
QueryFindsContextDead(c) ==
    CanCall(c) /\ obj[c] # NULL /\ context[c] \notin live

\* C20 as claimed: the liveness check that finds the stored context of a
\* populated bridge missing from the live set clears the triple and signals
\* the invalidate listeners, and the query returns NULL; on a bridge whose
\* triple is null it returns at once, without walking the contexts and
\* without notifying.
C20_LazyCheckInvalidatesAndNotifies ==
    /\ \A c \in Closures :
           QueryFindsContextDead(c) =>
               /\ GetContextStep(c).log.cleared
               /\ GetContextStep(c).obj[c] = NULL
               /\ GetContextStep(c).log.notified
    /\ InListeners /\ Top.k = "gjs_closure_get_context" =>
           ListenersReturnStep.log.result = "null"
    /\ \A c \in Closures :
           CanCall(c) /\ obj[c] = NULL =>
               /\ GetContextStep(c).log.engine = {}
               /\ ~GetContextStep(c).log.notified
               /\ GetContextStep(c).log.result = "null"

\* C20 as amended: as claimed, except that the listeners are signalled only
\* if g_closure_invalidate has not already signalled them for this bridge
\* (it is running or has run); the check then only clears the triple and
\* the query returns NULL at once.
C20_LazyCheckInvalidatesNotifiesOnce ==
    /\ \A c \in Closures :
           QueryFindsContextDead(c) =>
               LET H == GetContextStep(c)
               IN  /\ H.log.cleared /\ H.log.lazy_clear
                   /\ H.obj[c] = NULL /\ H.context[c] = NULL
                   /\ H.runtime[c] = NULL
                   /\ H.log.notified <=> ~is_invalid[c]
                   /\ IF is_invalid[c]
                      THEN H.suspended = NoFrame /\ H.log.result = "null"
                      ELSE /\ H.suspended # NoFrame
                           /\ H.suspended[1].kind = "notify"
                           /\ H.suspended[1].k = "gjs_closure_get_context"
    /\ InListeners /\ Top.k = "gjs_closure_get_context" =>
           /\ ListenersReturnStep.log.result = "null"
           /\ ~ListenersReturnStep.log.notified
    /\ \A c \in Closures :
           CanCall(c) /\ obj[c] = NULL =>
               /\ GetContextStep(c).log.engine = {}
               /\ ~GetContextStep(c).log.notified
               /\ ~GetContextStep(c).log.cleared
               /\ GetContextStep(c).log.result = "null"

\* gjs_closure_get_context found the context dead, cleared the triple and
\* is running the invalidate listeners.
C20_Witness ==
    /\ InListeners
    /\ Top.k = "gjs_closure_get_context"
    /\ cleared_by[Top.c] = "gjs_closure_get_context"
    /\ Cleared(Top.c)

\* C21: the release of the last native reference of a bridge that was
\* already invalidated (as after create, invoke, context destroyed, invoke)
\* hands no context and no callable to the engine or the keep-alive, makes no
\* keep-alive call and no engine call, and notifies nobody.
C21_FinalUnrefTouchesNothing ==
    \A c \in Closures :
        LastNativeUnref(c) /\ obj[c] = NULL =>
            LET H == UnrefStep(c)
            IN  /\ H.log.ctx_used = {}
                /\ H.log.obj_used = {}
                /\ H.log.registry = {}
                /\ H.log.engine = {}
                /\ ~H.log.notified /\ ~H.log.cleared
                /\ H.keep_alive = keep_alive
                /\ H.request_depth = request_depth
                /\ cleared_by[c] = "gjs_closure_invoke" /\ FramesOf(c) = {}
                       => H.log.finalized

\* The sequence was run: the bridge, invalidated by the no-op invoke, was
\* finalized by the last unref, and its keep-alive entry was not touched.
C21_Witness ==
    \E c \in Closures :
        /\ storage[c] = "freed"
        /\ cleared_by[c] = "gjs_closure_invoke"
        /\ EntryPending(c)
        /\ fault = "none"
        /\ stack = <<>>

\* C22: gjs_keep_alive_remove_global_child is called at most once per bridge:
\* every step that calls it begins on a bridge whose triple was never cleared,
\* whose context is in the runtime's live-context set and whose keep-alive
\* entry is still pending; it is handed that live context and the stored
\* callable, and it leaves the triple cleared and the entry gone for good.
C22_RemoveOnceLivePending ==
    \A c \in Closures :
        /\ \A H \in StepsOn(c) :
               "remove" \in H.log.registry =>
                   /\ obj[c] # NULL /\ n_cleared[c] = 0
                   /\ cleared_by[c] = "none"
                   /\ context[c] \in live
                   /\ [watched |-> obj[c], data |-> c] \in keep_alive[context[c]]
                   /\ H.log.ctx_used = {context[c]}
                   /\ H.log.ctx_used \subseteq live
                   /\ H.log.obj_used = {obj[c]}
                   /\ H.fault = fault
                   /\ H.obj[c] = NULL /\ H.n_cleared[c] = 1
                   /\ H.cleared_by[c] = "keep_alive_removed"
                   /\ \A x \in Contexts : \A e \in H.keep_alive[x] : e.data # c
        /\ cleared_by[c] = "keep_alive_removed" =>
               /\ n_cleared[c] = 1
               /\ storage[c] = "live" => obj[c] = NULL
               /\ ~EntryPending(c)

\* The entry of a bridge was removed while its context was live; the context
\* is still live and the bridge is still held.
C22_Witness ==
    \E c \in Closures :
        /\ cleared_by[c] = "keep_alive_removed"
        /\ storage[c] = "live"
        /\ live = Contexts
        /\ stack = <<>>
        /\ fault = "none"

\* The last native reference of closure c has been released by a
\* g_closure_unref that is running the invalidate listeners; the triple is
\* still populated, the context is dead and the keep-alive entry has not
\* fired.
ReleasedAfterContextDeath(c) ==
    /\ native_refs[c] = 0
    /\ \E i \in FramesOf(c) : stack[i].k = "g_closure_unref"
    /\ storage[c] = "live"
    /\ obj[c] # NULL
    /\ context[c] \notin live
    /\ EntryPending(c)

\* The bridge as the claim says that unref leaves it: not finalized,
\* invalidated, the triple null, the flag set, the self-reference its only
\* reference and the keep-alive entry still pending.
DeferredToNotifier(c) ==
    /\ storage[c] = "live"
    /\ is_invalid[c]
    /\ Cleared(c)
    /\ unref_on_global_object_finalized[c]
    /\ ref_count[c] = 1
    /\ EntryPending(c)

\* C23 as stated: once the last native reference of an Active bridge was
\* released with the context dead and the keep-alive notifier not yet
\* fired, the bridge leaves that condition only into the deferred state, from
\* which global_context_finalized alone finalizes it: that unref never
\* finalizes it.
C23_LastUnrefAfterDeathDefers ==
    [][\A c \in Closures :
           ReleasedAfterContextDeath(c) =>
               \/ ReleasedAfterContextDeath(c)'
               \/ DeferredToNotifier(c)']_vars

\* C23, amended: if the keep-alive notifier has still not fired when the
\* invalidate listeners of that unref have returned and closure_invalidated
\* runs, the unref leaves the bridge unfinalized, invalidated, with the triple
\* null, unref_on_global_object_finalized set and the self-reference as its
\* only reference, and calls neither the keep-alive nor the engine's
\* contexts; the bridge so left can only be finalized by
\* global_context_finalized, which releases that reference.
C23_LastUnrefAfterDeathDefersIfNotFired ==
    \A c \in Closures :
        /\ ReleasedAfterContextDeath(c) /\ InListeners /\ Top.c = c =>
               LET H == ListenersReturnStep
               IN  /\ H.storage[c] = "live" /\ ~H.log.finalized
                   /\ H.is_invalid[c]
                   /\ H.obj[c] = NULL /\ H.context[c] = NULL
                   /\ H.runtime[c] = NULL
                   /\ H.unref_on_global_object_finalized[c]
                   /\ H.log.selfref
                   /\ H.ref_count[c] = 1
                   /\ H.log.registry = {}
                   /\ H.log.ctx_used = {} /\ H.log.obj_used = {}
                   /\ H.keep_alive = keep_alive
                   /\ H.suspended = NoFrame
        /\ /\ storage[c] = "live" /\ native_refs[c] = 0 /\ FramesOf(c) = {}
           /\ unref_on_global_object_finalized[c]
           => /\ ref_count[c] = 1
              /\ Cleared(c) /\ is_invalid[c]
              /\ EntryPending(c)
              /\ \A H \in StepsOn(c) :
                     /\ H.log.op = "global_context_finalized"
                     /\ H.log.selfunref /\ H.log.finalized
                     /\ H.log.registry = {}

\* The deferred bridge was finalized by global_context_finalized.
C23_Witness ==
    \E c \in Closures :
        /\ storage[c] = "freed"
        /\ cleared_by[c] = "closure_invalidated"
        /\ n_selfref[c] = 1
        /\ n_selfunref[c] = 1
        /\ ~EntryPending(c)
        /\ fault = "none"

\* The deliveries of global_context_finalized that can begin on closure c.
NotifierStepsOn(c) ==
    IF Running /\ storage[c] = "live"
    THEN UNION {{GlobalObjectFinalizedStep(cx, e) :
                     e \in {x \in keep_alive[cx] : x.data = c}} :
                cx \in Contexts \ live}
    ELSE {}

\* What C24 and its amendment share: the delivery to a populated bridge
\* clears the triple, has the listeners notified once in all, makes no
\* keep-alive call, leaves the flag unset and moves no reference but the
\* temporary one of g_closure_invalidate.
NotifierClearsPopulated(c, H) ==
    /\ ~unref_on_global_object_finalized[c]
    /\ H.log.cleared
    /\ H.obj[c] = NULL /\ H.context[c] = NULL /\ H.runtime[c] = NULL
    /\ H.cleared_by[c] = "global_context_finalized"
    /\ H.n_cleared[c] = 1 /\ H.n_notified[c] = 1
    /\ H.log.registry = {}
    /\ H.keep_alive = [keep_alive EXCEPT ![context[c]] =
                           @ \ {[watched |-> obj[c], data |-> c]}]
    /\ ~H.unref_on_global_object_finalized[c]
    /\ ~H.log.selfref /\ ~H.log.selfunref
    /\ H.n_selfref[c] = 0 /\ H.n_selfunref[c] = 0
    /\ H.ref_count[c] = ref_count[c] + (IF H.suspended # NoFrame THEN 1 ELSE 0)
    /\ H.suspended # NoFrame =>
           /\ H.suspended[1].k = "global_context_finalized"
           /\ ~H.suspended[1].need_unref

\* The notification begun by global_context_finalized ends releasing only
\* the temporary reference; a bridge cleared by global_context_finalized is
\* finalized by the release of its last native reference, with no keep-alive
\* and no engine call.
NotifierAftermath ==
    /\ InListeners /\ Top.k = "global_context_finalized" =>
           LET H == ListenersReturnStep
           IN  /\ H.ref_count[Top.c] = ref_count[Top.c] - 1
               /\ ~H.log.selfunref /\ ~H.log.notified
               /\ H.log.registry = {} /\ H.log.engine = {}
               /\ H.obj[Top.c] = NULL
    /\ \A c \in Closures :
           /\ cleared_by[c] = "global_context_finalized"
           /\ LastNativeUnref(c) /\ FramesOf(c) = {}
           => LET H == UnrefStep(c)
              IN  /\ H.log.finalized
                  /\ H.log.registry = {} /\ H.log.engine = {}
                  /\ H.log.ctx_used = {} /\ H.log.obj_used = {}
                  /\ ~H.log.notified

\* C24 as stated: global_context_finalized delivered to a bridge whose
\* triple is populated clears the triple and notifies the invalidate
\* listeners, calls no keep-alive removal, does not set the flag and moves no
\* reference of its own; a later release of the last native reference
\* finalizes the bridge with no keep-alive and no engine call.
C24_NotifierOnPopulatedClearsAndNotifies ==
    /\ \A c \in Closures : \A H \in NotifierStepsOn(c) :
           obj[c] # NULL => NotifierClearsPopulated(c, H) /\ H.log.notified
    /\ NotifierAftermath

\* C24, amended: as stated, except that global_context_finalized notifies
\* the listeners only if g_closure_invalidate has not already started to
\* notify them for this bridge; if it has, the delivery only clears the
\* triple.
C24_NotifierOnPopulatedClearsNotifiesOnce ==
    /\ \A c \in Closures : \A H \in NotifierStepsOn(c) :
           obj[c] # NULL =>
               /\ NotifierClearsPopulated(c, H)
               /\ H.log.notified <=> ~is_invalid[c]
               /\ H.suspended # NoFrame <=> ~is_invalid[c]
    /\ NotifierAftermath

\* global_context_finalized cleared and notified a bridge, and the later
\* release of the last native reference finalized it.
C24_Witness ==
    \E c \in Closures :
        /\ storage[c] = "freed"
        /\ cleared_by[c] = "global_context_finalized"
        /\ n_notified[c] = 1
        /\ n_selfref[c] = 0
        /\ stack = <<>>
        /\ fault = "none"

\* C25: the live-closure counter equals the number of bridges created and
\* not yet finalized and is never negative; gjs_closure_new adds one, a step
\* subtracts one exactly if it finalizes the bridge, and a step that only
\* invalidates leaves the counter alone.
C25_CounterCountsLiveBridges ==
    /\ closure_counter = Cardinality({c \in Closures : storage[c] = "live"})
    /\ closure_counter >= 0
    /\ \A c \in Closures :
           /\ storage[c] = "unborn" =>
                  \A cx \in live, callable \in Callables :
                      NewStep(c, cx, callable).closure_counter
                          = closure_counter + 1
           /\ \A H \in StepsOn(c) :
                  /\ H.log.finalized <=> H.storage[c] = "freed"
                  /\ H.closure_counter =
                         closure_counter - (IF H.log.finalized THEN 1 ELSE 0)
                  /\ \A d \in Closures \ {c} : H.storage[d] = storage[d]

\* Two bridges were created; one is finalized, the other is invalidated and
\* not finalized, and the counter stands at one.
C25_Witness ==
    /\ closure_counter = 1
    /\ \E c \in Closures : storage[c] = "freed"
    /\ \E d \in Closures : storage[d] = "live" /\ is_invalid[d] /\ Cleared(d)
    /\ fault = "none"

\* C26: whenever unref_on_global_object_finalized is set, the triple is
\* null, the bridge is not finalized and its keep-alive entry is still
\* pending; no delivery of global_context_finalized both invalidates the
\* pointers and releases the deferred reference.
C26_FlagImpliesClearedLivePending ==
    \A c \in Closures :
        /\ unref_on_global_object_finalized[c] =>
               /\ Cleared(c)
               /\ storage[c] = "live"
               /\ is_invalid[c]
               /\ EntryPending(c)
               /\ n_selfref[c] = n_selfunref[c] + 1
        /\ \A H \in NotifierStepsOn(c) :
               /\ ~(H.log.cleared /\ H.log.selfunref)
               /\ H.log.selfunref <=> unref_on_global_object_finalized[c]
               /\ H.log.cleared <=> obj[c] # NULL
               /\ ~H.unref_on_global_object_finalized[c]
        /\ \A i \in FramesOf(c) :
               stack[i].k = "global_context_finalized" =>
                   ~stack[i].need_unref

\* A bridge invalidated by its holder after the context died: the flag is
\* set while the holder still has its reference.
C26_Witness ==
    \E c \in Closures :
        /\ unref_on_global_object_finalized[c]
        /\ native_refs[c] >= 1
        /\ stack = <<>>
        /\ fault = "none"

\* C27: the assertion c->obj == obj of global_context_finalized never fails:
\* the watched object of the keep-alive entry of a bridge equals its stored
\* callable for as long as the triple is populated, every delivery to a
\* populated bridge passes the assertion, and no delivery ends in the
\* assertion failing.
C27_AssertionNeverFails ==
    /\ fault \notin {"abort", "uaf_abort"}
    /\ \A c \in Closures :
           /\ storage[c] = "live" /\ obj[c] # NULL =>
                  \A cx \in Contexts : \A e \in keep_alive[cx] :
                      e.data = c => e.watched = obj[c] /\ cx = context[c]
           /\ \A H \in NotifierStepsOn(c) : H.fault # "abort"

\* The requests that calls still in progress hold open on context cx: one
\* per callable being dispatched in cx by gjs_closure_invoke, one per
\* gjs_closure_invoke_simple that was entered with cx and has not returned.
OpenRequests(cx) ==
    Cardinality({i \in 1..Len(stack) :
                     stack[i].kind = "call" /\ stack[i].context = cx})
    + Cardinality({i \in 1..Len(stack) : stack[i].simple = cx})

\* C28: engine requests are balanced: on every context the request depth is
\* what the calls still in progress hold open, so that every call that
\* has returned from gjs_closure_new, gjs_closure_invoke or
\* gjs_closure_invoke_simple has left the depth as it found it.
C28_RequestsBalanced ==
    \A cx \in Contexts : request_depth[cx] = OpenRequests(cx)

\* What gjs_closure_get_context called on closure c in this state returns
\* (after the invalidate listeners it may have to run first).
GetContextReturnsContext(c) ==
    /\ GetContextStep(c).suspended = NoFrame
    /\ GetContextStep(c).log.result = "context"

\* C29: the two queries agree in every state a holder can call them in:
\* gjs_closure_get_callable returns non-NULL exactly if
\* gjs_closure_get_context returns non-NULL, and never returns a callable
\* whose context has left the live-context set.
C29_QueriesAgree ==
    \A c \in Closures :
        CanCall(c) =>
            /\ GetCallableStep(c).log.result = "callable"
                   <=> GetContextReturnsContext(c)
            /\ GetCallableStep(c).log.result = "callable"
                   => context[c] \in live

\* C30: the liveness check on a populated bridge whose context is in the
\* live-context set changes nothing: check_context_valid only walks the
\* contexts, and the query that runs it returns the context at once, with
\* the triple, the reference count, the flag, the invalid mark and the
\* keep-alive as they were and nobody notified; an invoke that runs it goes
\* on to dispatch the callable on the same unchanged bridge.
C30_CheckOnLiveBridgeChangesNothing ==
    \A c \in Closures :
        CanCall(c) /\ obj[c] # NULL /\ context[c] \in live =>
            LET H0 == HeapAt("check_context_valid", c)
                H == GetContextStep(c)
                K == InvokePendingStep(c, FALSE)
                Same(G) ==
                    /\ G.obj = obj /\ G.context = context
                    /\ G.runtime = runtime
                    /\ G.ref_count = ref_count
                    /\ G.unref_on_global_object_finalized
                           = unref_on_global_object_finalized
                    /\ G.is_invalid = is_invalid
                    /\ G.keep_alive = keep_alive
                    /\ G.storage = storage
                    /\ G.n_notified = n_notified /\ G.n_cleared = n_cleared
                    /\ ~G.log.notified /\ ~G.log.cleared /\ ~G.log.lazy_clear
                    /\ G.log.registry = {}
                    /\ G.fault = fault
            IN  /\ check_context_valid(H0, c, "check_context_valid")
                       = [H0 EXCEPT !.log.engine = {"JS_ContextIterator"}]
                /\ Same(H)
                /\ H.suspended = NoFrame
                /\ H.log.result = "context"
                /\ H.request_depth = request_depth
                /\ Same(K)
                /\ K.log.result = "dispatched"

\* An invoke checked a populated bridge in a live context and is
\* dispatching its callable: the bridge is as it was created.
C30_Witness ==
    \E c \in Closures :
        /\ Dispatching(c)
        /\ Populated(c)
        /\ context[c] \in live
        /\ ~is_invalid[c]
        /\ n_notified[c] = 0
        /\ ref_count[c] = native_refs[c]
        /\ EntryPending(c)

====
